---- MODULE Spec2Model ----
(***************************************************************************)
(* Codefix-CLI: the execution sandbox (debugger/sandbox.py) and the        *)
(* structural analyzer (debugger/ast_scan.py).                             *)
(***************************************************************************)
EXTENDS Integers, Sequences, FiniteSets, TLC

(***************************************************************************)
(* Part I.  run_in_sandbox(code, timeout)                                   *)
(***************************************************************************)

\* Callers that may be inside run_in_sandbox at the same time.
Calls == {"A", "B"}

\* Largest timeout argument (seconds) a caller passes.
MaxTimeout == 2
Timeouts == 1..MaxTimeout

\* Seconds the interpreter launch may take before the bounded wait starts.
MaxSpawnDelay == 1

\* Paths tempfile.mkstemp can hand out.
Paths == {"tmp_a.py", "tmp_b.py"}

NoFile == "<absent>"
NoPath == "<none>"
NoCode == "<none>"

\* Source texts handed to the sandbox.
SurrogateText == "s = '<U+D800>'"
Codes == { "print('hi')",
           "sys.exit(3)",
           "while True: pass",
           "Popen(['sleep','60']); while True: pass",
           "sys.stdout.buffer.write(b'\\xff')",
           SurrogateText }

\* open(path, "w", encoding="utf-8").write(code) raises UnicodeEncodeError
\* for a text holding a lone surrogate.
Encodable(code) == code # SurrogateText

\* What the interpreter does when it runs a file holding the given text.
Behaviour(text) ==
  CASE text = "print('hi')" ->
         [exits |-> TRUE, spawns |-> FALSE, rc |-> 0, out |-> "hi\n", err |-> "", decodes |-> TRUE]
    [] text = "sys.exit(3)" ->
         [exits |-> TRUE, spawns |-> FALSE, rc |-> 3, out |-> "", err |-> "", decodes |-> TRUE]
    [] text = "while True: pass" ->
         [exits |-> FALSE, spawns |-> FALSE, rc |-> 0, out |-> "", err |-> "", decodes |-> TRUE]
    [] text = "Popen(['sleep','60']); while True: pass" ->
         [exits |-> FALSE, spawns |-> TRUE, rc |-> 0, out |-> "", err |-> "", decodes |-> TRUE]
    [] text = "sys.stdout.buffer.write(b'\\xff')" ->
         [exits |-> TRUE, spawns |-> FALSE, rc |-> 0, out |-> "<0xff>", err |-> "", decodes |-> FALSE]
    [] OTHER ->
         [exits |-> TRUE, spawns |-> FALSE, rc |-> 0, out |-> "", err |-> "", decodes |-> TRUE]

VARIABLES
  pc,        \* pc[c]: where call c is inside run_in_sandbox
  code,      \* code[c]: the source text argument
  timeout,   \* timeout[c]: the timeout argument
  path,      \* path[c]: the path mkstemp returned to call c
  disk,      \* disk[p]: content of the file at p, or NoFile
  procs,     \* procs[c]: the child of call c and the process the child spawned
  prog,      \* prog[c]: the text the interpreter read from the file it was given
  clock,     \* clock[c]: seconds since t0 = time.perf_counter()
  waited,    \* waited[c]: seconds since the bounded wait began
  result,    \* result[c]: the dict the call returns
  exc,       \* exc[c]: the exception that left the call, or "none"
  removes    \* removes[c]: how many times call c has called os.remove(path)

sandboxVars ==
  <<pc, code, timeout, path, disk, procs, prog, clock, waited, result, exc, removes>>

VARIABLES
  scode,       \* the code argument of scan
  spc,         \* where scan is
  tree,        \* tree = ast.parse(code)
  issues,      \* the issues list
  complexity,  \* the complexity dict
  sresult,     \* the dict scan returns
  sexc         \* the exception that left scan, or "none"

scanVars == <<scode, spc, tree, issues, complexity, sresult, sexc>>

VARIABLES
  _history,    \* CodeFixApp._history
  _hist_idx,   \* CodeFixApp._hist_idx
  input_text,  \* the text of the #input TextArea
  popped       \* what the last self._history.pop(0) removed

historyVars == <<_history, _hist_idx, input_text, popped>>

NoResult == [pending |-> TRUE]
NoProcs == [child |-> "none", descendant |-> "none"]

\* ---- the three dicts run_in_sandbox builds --------------------------------
SuccessResult(out, err, rc, elapsed) ==
  [ok |-> TRUE, stdout |-> out, stderr |-> err, returncode |-> rc, elapsed |-> elapsed]

\* A timeout reported with an error message as well.
TimeoutResult_WithError(t) ==
  [ok |-> FALSE, timeout |-> TRUE, error |-> "timed out", elapsed |-> t]

TimeoutResult(t) == [ok |-> FALSE, timeout |-> TRUE, elapsed |-> t]

ErrorResult(msg) == [ok |-> FALSE, error |-> msg, elapsed |-> 0]

\* round(elapsed, 4): the clock counts whole steps, the reading taken at line
\* 30 lies between clock and clock + 1, and rounding carries it to the next
\* whole step when the fraction rounds up to one.
round(whole, carries) == IF carries THEN whole + 1 ELSE whole

\* subprocess.run on TimeoutExpired: process.kill() signals the child it
\* started, and nothing signals the group made by setsid /
\* CREATE_NEW_PROCESS_GROUP.
KillOnTimeout(ps) == [ps EXCEPT !.child = "killed"]

\* A call that creates its file under one fixed name.
mkstemp_FixedName(d) == {"tmp_a.py"}

\* tempfile.mkstemp: the paths it may return, none of which exists (the file
\* is created with O_EXCL, so no two calls are given the same path).
mkstemp(d) == {p \in Paths : d[p] = NoFile}

\* The finally clause: os.remove(path); removed tells whether it succeeded.
RemoveFile(d, p, removed) == IF removed THEN [d EXCEPT ![p] = NoFile] ELSE d

\* Lines 8-11 sit before the try statement: what an exception raised there does.
BeforeTry(c, e) ==
  /\ pc' = [pc EXCEPT ![c] = "raised"]
  /\ exc' = [exc EXCEPT ![c] = e]

SandboxInit ==
  /\ pc = [c \in Calls |-> "idle"]
  /\ code = [c \in Calls |-> NoCode]
  /\ timeout = [c \in Calls |-> 0]
  /\ path = [c \in Calls |-> NoPath]
  /\ disk = [p \in Paths |-> NoFile]
  /\ procs = [c \in Calls |-> NoProcs]
  /\ prog = [c \in Calls |-> NoCode]
  /\ clock = [c \in Calls |-> 0]
  /\ waited = [c \in Calls |-> 0]
  /\ result = [c \in Calls |-> NoResult]
  /\ exc = [c \in Calls |-> "none"]
  /\ removes = [c \in Calls |-> 0]

\* run_in_sandbox(code, timeout) is entered.
run_in_sandbox(c) ==
  /\ pc[c] = "idle"
  /\ \E src \in Codes, t \in Timeouts :
       /\ code' = [code EXCEPT ![c] = src]
       /\ timeout' = [timeout EXCEPT ![c] = t]
  /\ pc' = [pc EXCEPT ![c] = "mkstemp"]
  /\ UNCHANGED <<path, disk, procs, prog, clock, waited, result, exc>>
  /\ UNCHANGED <<removes, scanVars, historyVars>>

\* fd, path = tempfile.mkstemp(suffix=".py"); os.close(fd)
Mkstemp(c) ==
  /\ pc[c] = "mkstemp"
  /\ \/ \E p \in mkstemp(disk) :
          /\ disk' = [disk EXCEPT ![p] = ""]
          /\ path' = [path EXCEPT ![c] = p]
          /\ pc' = [pc EXCEPT ![c] = "write"]
          /\ exc' = exc
     \/ /\ BeforeTry(c, "OSError")
        /\ UNCHANGED <<path, disk>>
  /\ UNCHANGED <<code, timeout, procs, prog, clock, waited, result>>
  /\ UNCHANGED <<removes, scanVars, historyVars>>

\* with open(path, "w", encoding="utf-8") as f: f.write(code)
\* then the platform flags, and t0 = time.perf_counter() inside the try.
WriteCode(c) ==
  /\ pc[c] = "write"
  /\ \/ /\ Encodable(code[c])
        /\ disk' = [disk EXCEPT ![path[c]] = code[c]]
        /\ pc' = [pc EXCEPT ![c] = "spawn"]
        /\ exc' = exc
     \/ /\ ~Encodable(code[c])
        /\ BeforeTry(c, "UnicodeEncodeError")
        /\ disk' = disk
     \/ /\ BeforeTry(c, "OSError")
        /\ disk' = disk
  /\ clock' = [clock EXCEPT ![c] = 0]
  /\ UNCHANGED <<code, timeout, path, procs, prog, waited, result>>
  /\ UNCHANGED <<removes, scanVars, historyVars>>

\* Wall-clock time passes while the call launches the child or waits for it.
Tick(c) ==
  /\ \/ /\ pc[c] = "spawn"
        /\ clock[c] < MaxSpawnDelay
        /\ waited' = waited
     \/ /\ pc[c] = "wait"
        /\ waited[c] < timeout[c]
        /\ waited' = [waited EXCEPT ![c] = @ + 1]
  /\ clock' = [clock EXCEPT ![c] = @ + 1]
  /\ UNCHANGED <<pc, code, timeout, path, disk, procs, prog, result, exc>>
  /\ UNCHANGED <<removes, scanVars, historyVars>>

\* subprocess.run starts [sys.executable, path] in its own process group;
\* a failure to start is an OSError caught by "except Exception".
Launch(c) ==
  /\ pc[c] = "spawn"
  /\ \/ /\ procs' = [procs EXCEPT ![c].child = "running"]
        /\ prog' = [prog EXCEPT ![c] = disk[path[c]]]
        /\ waited' = [waited EXCEPT ![c] = 0]
        /\ pc' = [pc EXCEPT ![c] = "wait"]
        /\ result' = result
     \/ /\ result' = [result EXCEPT ![c] = ErrorResult("OSError: cannot start interpreter")]
        /\ pc' = [pc EXCEPT ![c] = "finally"]
        /\ UNCHANGED <<procs, prog, waited>>
  /\ UNCHANGED <<code, timeout, path, disk, clock, exc>>
  /\ UNCHANGED <<removes, scanVars, historyVars>>

\* The child starts a process of its own, which inherits the child's group.
ChildSpawns(c) ==
  /\ procs[c].child = "running"
  /\ procs[c].descendant = "none"
  /\ Behaviour(prog[c]).spawns
  /\ procs' = [procs EXCEPT ![c].descendant = "running"]
  /\ UNCHANGED <<pc, code, timeout, path, disk, prog, clock, waited, result, exc>>
  /\ UNCHANGED <<removes, scanVars, historyVars>>

\* The child exits before the deadline and subprocess.run returns; output
\* that does not decode (text=True) raises inside run and is caught.
ChildExits(c) ==
  /\ pc[c] = "wait"
  /\ procs[c].child = "running"
  /\ Behaviour(prog[c]).exits
  /\ procs' = [procs EXCEPT ![c].child = "exited"]
  /\ \E carries \in BOOLEAN :
       LET b == Behaviour(prog[c]) IN
         result' = [result EXCEPT ![c] =
                      IF b.decodes
                        THEN SuccessResult(b.out, b.err, b.rc, round(clock[c], carries))
                        ELSE ErrorResult("UnicodeDecodeError")]
  /\ pc' = [pc EXCEPT ![c] = "finally"]
  /\ UNCHANGED <<code, timeout, path, disk, prog, clock, waited, exc>>
  /\ UNCHANGED <<removes, scanVars, historyVars>>

\* The deadline passes first: subprocess.run kills the child and raises
\* TimeoutExpired, caught by the first except clause.
Deadline(c) ==
  /\ pc[c] = "wait"
  /\ procs[c].child = "running"
  /\ waited[c] = timeout[c]
  /\ procs' = [procs EXCEPT ![c] = KillOnTimeout(@)]
  /\ result' = [result EXCEPT ![c] = TimeoutResult(timeout[c])]
  /\ pc' = [pc EXCEPT ![c] = "finally"]
  /\ UNCHANGED <<code, timeout, path, disk, prog, clock, waited, exc>>
  /\ UNCHANGED <<removes, scanVars, historyVars>>

\* A cleanup that reports a failed os.remove instead of swallowing it.
Cleanup_Escalates(c) ==
  /\ pc[c] = "finally"
  /\ \E removed \in BOOLEAN :
       /\ disk' = RemoveFile(disk, path[c], removed)
       /\ result' = [result EXCEPT ![c] = IF removed THEN @ ELSE ErrorResult("OSError")]
  /\ removes' = [removes EXCEPT ![c] = @ + 1]
  /\ pc' = [pc EXCEPT ![c] = "returned"]
  /\ UNCHANGED <<code, timeout, path, procs, prog, clock, waited, exc>>
  /\ UNCHANGED <<scanVars, historyVars>>

\* finally: try: os.remove(path) except Exception: pass -- then the return.
Cleanup(c) ==
  /\ pc[c] = "finally"
  /\ \E removed \in BOOLEAN : disk' = RemoveFile(disk, path[c], removed)
  /\ removes' = [removes EXCEPT ![c] = @ + 1]
  /\ pc' = [pc EXCEPT ![c] = "returned"]
  /\ UNCHANGED <<code, timeout, path, procs, prog, clock, waited, result, exc>>
  /\ UNCHANGED <<scanVars, historyVars>>

\* A process the child started ends on its own.
DescendantExits(c) ==
  /\ procs[c].descendant = "running"
  /\ procs' = [procs EXCEPT ![c].descendant = "exited"]
  /\ UNCHANGED <<pc, code, timeout, path, disk, prog, clock, waited, result, exc>>
  /\ UNCHANGED <<removes, scanVars, historyVars>>

SandboxNext ==
  \E c \in Calls :
    \/ run_in_sandbox(c)
    \/ Mkstemp(c)
    \/ WriteCode(c)
    \/ Tick(c)
    \/ Launch(c)
    \/ ChildSpawns(c)
    \/ ChildExits(c)
    \/ Deadline(c)
    \/ Cleanup(c)
    \/ DescendantExits(c)


(***************************************************************************)
(* Part II.  scan(code)                                                     *)
(***************************************************************************)

\* ---- syntax trees as ast.parse builds them --------------------------------
\* A node is a record: class names its ast class, lineno its line, and each
\* child field holds the sequence of its child nodes (an optional child is a
\* sequence of length 0 or 1).  None as a string is "".

\* Child fields of each ast class, in the order of its _fields.
Fields(class) ==
  CASE class = "Module" -> <<"body">>
    [] class \in {"FunctionDef", "AsyncFunctionDef"} -> <<"args", "body">>
    [] class = "Lambda" -> <<"args", "body">>
    [] class = "arguments" -> <<"kw_defaults", "defaults">>
    [] class = "Return" -> <<"value">>
    [] class \in {"If", "While"} -> <<"test", "body", "orelse">>
    [] class = "Assign" -> <<"targets", "value">>
    [] class = "Expr" -> <<"value">>
    [] class \in {"Import", "ImportFrom"} -> <<"names">>
    [] class = "Try" -> <<"body", "handlers", "orelse", "finalbody">>
    [] class = "ExceptHandler" -> <<"type", "body">>
    [] class = "BoolOp" -> <<"values">>
    [] class = "BinOp" -> <<"left", "right">>
    [] class = "Call" -> <<"func", "args">>
    [] class = "Attribute" -> <<"value">>
    [] OTHER -> <<>>

Range(s) == {s[i] : i \in DOMAIN s}

\* Classes whose nodes are laid out on the line of the statement holding them.
ExprClasses == {"Name", "BoolOp", "BinOp", "Call", "Attribute", "Constant", "List",
                "Dict", "Set", "Lambda", "arguments", "alias"}

\* Fields holding statement blocks, each statement on a line of its own.
BlockFields == {"body", "handlers", "orelse", "finalbody"}

\* ---- constructors of the inputs (positions are set by ast_parse) ----------
Name(id, ctx) == [class |-> "Name", id |-> id, ctx |-> ctx, lineno |-> 0]
Attribute(value, attr) == [class |-> "Attribute", value |-> <<value>>, attr |-> attr, lineno |-> 0]
BoolOp(values) == [class |-> "BoolOp", values |-> values, lineno |-> 0]
Arguments(kw_defaults, defaults) ==
  [class |-> "arguments", kw_defaults |-> kw_defaults, defaults |-> defaults, lineno |-> 0]
NoArgs == Arguments(<<>>, <<>>)
Def(class, name, args, body) ==
  [class |-> class, name |-> name, args |-> <<args>>, body |-> body, lineno |-> 0]
Lambda(args, body) == [class |-> "Lambda", args |-> <<args>>, body |-> <<body>>, lineno |-> 0]
Return == [class |-> "Return", value |-> <<>>, lineno |-> 0]
None == [class |-> "NoneType", lineno |-> 0]
Literal(class) == [class |-> class, lineno |-> 0]
Call(func, args) == [class |-> "Call", func |-> <<func>>, args |-> args, lineno |-> 0]
BinOp(left, right) == [class |-> "BinOp", left |-> <<left>>, right |-> <<right>>, lineno |-> 0]
ExceptHandler(type, body) == [class |-> "ExceptHandler", type |-> type, body |-> body, lineno |-> 0]
Try(body, handlers) ==
  [class |-> "Try", body |-> body, handlers |-> handlers, orelse |-> <<>>, finalbody |-> <<>>,
   lineno |-> 0]
\* An operator chain nested deeper than the interpreter's recursion limit
\* lets NodeVisitor go, and shallow enough for ast.parse to build it
\* ("1+1+...+1" with some 600 operands): its outermost BinOp.
DeepChain ==
  [class |-> "BinOp", left |-> <<Literal("Constant")>>, right |-> <<Literal("Constant")>>,
   lineno |-> 0, nesting |-> "deep"]
Pass == [class |-> "Pass", lineno |-> 0]
Expr(value) == [class |-> "Expr", value |-> <<value>>, lineno |-> 0]
Assign(targets, value) == [class |-> "Assign", targets |-> targets, value |-> <<value>>, lineno |-> 0]
If(test, body, orelse) ==
  [class |-> "If", test |-> <<test>>, body |-> body, orelse |-> orelse, lineno |-> 0]
Alias(name, asname) == [class |-> "alias", name |-> name, asname |-> asname, lineno |-> 0]
Import(names) == [class |-> "Import", names |-> names, lineno |-> 0]
ImportFrom(module, names) ==
  [class |-> "ImportFrom", module |-> module, names |-> names, lineno |-> 0]

\* ---- ast.parse -------------------------------------------------------------
\* A source text is given by what the parser makes of it: the statements it
\* denotes, the SyntaxError the parser reports, or another exception that
\* leaves ast.parse (a lone surrogate: UnicodeEncodeError; an expression
\* nested too deep: RecursionError or MemoryError).
Program(body) == [kind |-> "program", body |-> body]
BadSyntax(msg, lineno) == [kind |-> "SyntaxError", msg |-> msg, lineno |-> lineno]
Unparsed(e) == [kind |-> "raises", exc |-> e]

RECURSIVE SetLine(_, _)
SetLine(n, l) ==
  [f \in DOMAIN n |->
     IF f = "lineno" THEN l
     ELSE IF f \in Range(Fields(n.class))
       THEN [i \in 1..Len(n[f]) |-> SetLine(n[f][i], l)]
       ELSE n[f]]

RECURSIVE LayoutBlock(_, _)
\* Lays the statement n out from line l on; next is the first line after it.
LayoutStmt(n, l) ==
  LET D == DOMAIN n
      Empty == [nodes |-> <<>>, next |-> 0]
      body == IF "body" \in D THEN LayoutBlock(n.body, l + 1) ELSE [Empty EXCEPT !.next = l + 1]
      handlers == IF "handlers" \in D THEN LayoutBlock(n.handlers, body.next)
                  ELSE [Empty EXCEPT !.next = body.next]
      orelse == IF "orelse" \in D /\ n.orelse # <<>> THEN LayoutBlock(n.orelse, handlers.next + 1)
                ELSE [Empty EXCEPT !.next = handlers.next]
      finalbody == IF "finalbody" \in D /\ n.finalbody # <<>>
                     THEN LayoutBlock(n.finalbody, orelse.next + 1)
                   ELSE [Empty EXCEPT !.next = orelse.next]
  IN [node |-> [f \in D |->
                  CASE f = "lineno" -> l
                    [] f = "body" -> body.nodes
                    [] f = "handlers" -> handlers.nodes
                    [] f = "orelse" -> orelse.nodes
                    [] f = "finalbody" -> finalbody.nodes
                    [] f \in Range(Fields(n.class)) \ BlockFields ->
                         [i \in 1..Len(n[f]) |-> SetLine(n[f][i], l)]
                    [] OTHER -> n[f]],
      next |-> finalbody.next]

LayoutBlock(stmts, l) ==
  IF stmts = <<>> THEN [nodes |-> <<>>, next |-> l]
  ELSE LET first == LayoutStmt(Head(stmts), l)
           rest == LayoutBlock(Tail(stmts), first.next)
       IN [nodes |-> <<first.node>> \o rest.nodes, next |-> rest.next]

\* ast.parse(code): the Module of a text that parses, else the exception.
ast_parse(src) ==
  IF src.kind = "program"
    THEN [raised |-> "none",
          tree |-> [class |-> "Module", body |-> LayoutBlock(src.body, 1).nodes, lineno |-> 0]]
  ELSE IF src.kind = "SyntaxError"
    THEN [raised |-> "SyntaxError", e |-> [msg |-> src.msg, lineno |-> src.lineno]]
  ELSE [raised |-> src.exc]

\* ---- ast.iter_child_nodes, ast.walk --------------------------------------
IsAST(x) == x.class # "NoneType"

RECURSIVE ConcatFields(_, _)
\* The AST items of the fields fs of n, in order (a None in a list is skipped).
ConcatFields(n, fs) ==
  IF fs = <<>> THEN <<>> ELSE SelectSeq(n[Head(fs)], IsAST) \o ConcatFields(n, Tail(fs))

iter_child_nodes(n) == ConcatFields(n, Fields(n.class))

RECURSIVE WalkQueue(_)
WalkQueue(todo) ==
  IF todo = <<>> THEN <<>>
  ELSE <<Head(todo)>> \o WalkQueue(Tail(todo) \o iter_child_nodes(Head(todo)))

\* ast.walk(node): the node and its descendants, breadth first.
walk(node) == WalkQueue(<<node>>)

isinstance(n, classes) == n.class \in classes

FunctionClasses == {"FunctionDef", "AsyncFunctionDef"}

Issue(kind, name, detail, lineno) ==
  [kind |-> kind, name |-> name, detail |-> detail, lineno |-> lineno]

\* ---- rule 1: unreachable code after return --------------------------------
RECURSIVE BodyScan(_, _, _, _)
\* for n in node.body: ... with the flag returned; i is the position of n.
BodyScan(node, i, returned, found) ==
  IF i > Len(node.body) THEN found
  ELSE IF isinstance(node.body[i], {"Return"}) THEN BodyScan(node, i + 1, TRUE, found)
  ELSE IF returned
    THEN found \o <<Issue("unreachable", node.name, 0, node.body[i].lineno)>>
  ELSE BodyScan(node, i + 1, returned, found)

RECURSIVE UnreachableRule(_)
UnreachableRule(nodes) ==
  IF nodes = <<>> THEN <<>>
  ELSE (IF isinstance(Head(nodes), FunctionClasses)
          THEN BodyScan(Head(nodes), 1, FALSE, <<>>) ELSE <<>>)
       \o UnreachableRule(Tail(nodes))

\* ---- rule 2: unused imports -----------------------------------------------
_is_used_in_tree(name, tree_) ==
  \E i \in DOMAIN walk(tree_) :
    LET node == walk(tree_)[i] IN
      isinstance(node, {"Name"}) /\ node.id = name /\ node.ctx = "Load"

\* alias.asname or alias.name
AliasName(alias) == IF alias.asname # "" THEN alias.asname ELSE alias.name

RECURSIVE AliasScan(_, _, _, _)
AliasScan(node, i, tree_, skipStar) ==
  IF i > Len(node.names) THEN <<>>
  ELSE (IF (skipStar /\ node.names[i].name = "*")
           \/ _is_used_in_tree(AliasName(node.names[i]), tree_)
          THEN <<>>
          ELSE <<Issue("unused_import", AliasName(node.names[i]), 0, node.lineno)>>)
       \o AliasScan(node, i + 1, tree_, skipStar)

RECURSIVE UnusedImportRule(_, _)
UnusedImportRule(nodes, tree_) ==
  IF nodes = <<>> THEN <<>>
  ELSE (IF isinstance(Head(nodes), {"Import"}) THEN AliasScan(Head(nodes), 1, tree_, FALSE)
        ELSE IF isinstance(Head(nodes), {"ImportFrom"}) THEN AliasScan(Head(nodes), 1, tree_, TRUE)
        ELSE <<>>)
       \o UnusedImportRule(Tail(nodes), tree_)

\* ---- rule 3: bare except clauses ------------------------------------------
RECURSIVE BareExceptRule(_)
BareExceptRule(nodes) ==
  IF nodes = <<>> THEN <<>>
  ELSE (IF isinstance(Head(nodes), {"ExceptHandler"}) /\ Head(nodes).type = <<>>
          THEN <<Issue("bare_except", "", 0, Head(nodes).lineno)>> ELSE <<>>)
       \o BareExceptRule(Tail(nodes))

\* ---- rule 4: eval() / exec() ----------------------------------------------
CalleeName(node) ==
  LET func == node.func[1] IN
    IF isinstance(func, {"Name"}) THEN func.id
    ELSE IF isinstance(func, {"Attribute"}) THEN func.attr
    ELSE ""

RECURSIVE DangerousCallRule(_)
DangerousCallRule(nodes) ==
  IF nodes = <<>> THEN <<>>
  ELSE (IF isinstance(Head(nodes), {"Call"}) /\ CalleeName(Head(nodes)) \in {"eval", "exec"}
          THEN <<Issue("dangerous_call", CalleeName(Head(nodes)), 0, Head(nodes).lineno)>>
          ELSE <<>>)
       \o DangerousCallRule(Tail(nodes))

\* ---- rule 5: mutable default arguments ------------------------------------
_MUTABLE == {"List", "Dict", "Set"}

RECURSIVE DefaultScan(_, _)
DefaultScan(node, defaults) ==
  IF defaults = <<>> THEN <<>>
  ELSE (IF IsAST(Head(defaults)) /\ isinstance(Head(defaults), _MUTABLE)
          THEN <<Issue("mutable_default", node.name, 0, node.lineno)>> ELSE <<>>)
       \o DefaultScan(node, Tail(defaults))

RECURSIVE MutableDefaultRule(_)
MutableDefaultRule(nodes) ==
  IF nodes = <<>> THEN <<>>
  ELSE (IF isinstance(Head(nodes), FunctionClasses)
          THEN DefaultScan(Head(nodes),
                 Head(nodes).args[1].defaults \o Head(nodes).args[1].kw_defaults)
          ELSE <<>>)
       \o MutableDefaultRule(Tail(nodes))

\* ---- rule 6: cyclomatic complexity ----------------------------------------
_BRANCH_NODES == {"If", "For", "While", "ExceptHandler", "With", "Assert",
                  "comprehension", "BoolOp"}

RECURSIVE CountBranches(_, _)
CountBranches(nodes, count) ==
  IF nodes = <<>> THEN count
  ELSE CountBranches(Tail(nodes),
         IF isinstance(Head(nodes), _BRANCH_NODES)
           THEN (IF isinstance(Head(nodes), {"BoolOp"})
                   THEN count + Len(Head(nodes).values) - 1
                   ELSE count + 1)
           ELSE count)

\* A count that starts at zero instead of one.
_cyclomatic_FromZero(func_node) == CountBranches(walk(func_node), 0)

_cyclomatic(func_node) == CountBranches(walk(func_node), 1)

HighComplexity == 10

EmptyMap == [n \in {} |-> 0]
MapSet(m, k, v) == [n \in DOMAIN m \cup {k} |-> IF n = k THEN v ELSE m[n]]

RECURSIVE ComplexityRule(_, _)
\* acc: the issues appended by the rule and the complexity dict so far.
ComplexityRule(nodes, acc) ==
  IF nodes = <<>> THEN acc
  ELSE IF isinstance(Head(nodes), FunctionClasses)
    THEN LET cc == _cyclomatic(Head(nodes)) IN
           ComplexityRule(Tail(nodes),
             [complexity |-> MapSet(acc.complexity, Head(nodes).name, cc),
              issues |-> IF cc >= HighComplexity
                           THEN acc.issues \o <<Issue("high_complexity", Head(nodes).name, cc,
                                                      Head(nodes).lineno)>>
                           ELSE acc.issues])
  ELSE ComplexityRule(Tail(nodes), acc)

\* ---- rule 7: undefined variables (UndefinedVarVisitor) --------------------
RECURSIVE AssignTargets(_, _)
\* visit_Assign: the ids of the targets that are plain names.
AssignTargets(targets, defined) ==
  IF targets = <<>> THEN defined
  ELSE AssignTargets(Tail(targets),
         IF isinstance(Head(targets), {"Name"}) THEN defined \cup {Head(targets).id}
         ELSE defined)

\* NodeVisitor.visit calls generic_visit, which calls visit for each child:
\* two frames a level, so the visit of a chain nested too deep raises
\* RecursionError before it reaches any operand of the chain.
ExceedsRecursionLimit(node) == "nesting" \in DOMAIN node

\* What visit_Assign and visit_Name do to (defined_vars, issues) before they
\* call generic_visit; every other class goes straight to generic_visit.
VisitNode(node, st) ==
  IF ExceedsRecursionLimit(node)
    THEN [st EXCEPT !.raised = TRUE]
  ELSE IF isinstance(node, {"Assign"})
    THEN [st EXCEPT !.defined_vars = AssignTargets(node.targets, @)]
  ELSE IF isinstance(node, {"Name"}) /\ node.ctx = "Load" /\ node.id \notin st.defined_vars
    THEN [st EXCEPT !.issues = @ \o <<Issue("undefined_var", node.id, 0, node.lineno)>>]
  ELSE st

RECURSIVE visit(_, _)
\* NodeVisitor.visit with generic_visit: depth first, a node before its
\* children, children in field order; todo holds the nodes still to visit.
\* An exception ends the visit where it is raised.
visit(todo, st) ==
  IF todo = <<>> \/ st.raised THEN st
  ELSE visit(iter_child_nodes(Head(todo)) \o Tail(todo), VisitNode(Head(todo), st))

\* visitor = UndefinedVarVisitor(); visitor.visit(tree)
RunVisitor(tree_) == visit(<<tree_>>, [defined_vars |-> {}, issues |-> <<>>, raised |-> FALSE])

\* try: ... visitor.visit(tree) except Exception: pass -- visit_Name appends
\* to the issues list of scan itself, so what was appended before the
\* exception stays in it.
UndefinedVarRule(tree_) == RunVisitor(tree_).issues

\* ---- the two dicts scan returns -------------------------------------------
SyntaxErrorResult(e) ==
  [ok |-> FALSE, syntax_error |-> [msg |-> e.msg, lineno |-> e.lineno],
   issues |-> <<>>, complexity |-> EmptyMap]

\* A successful result that carries a syntax_error entry as well.
ScanResult_WithSyntaxError(issues_, complexity_) ==
  [ok |-> TRUE, syntax_error |-> [msg |-> "", lineno |-> 0],
   issues |-> issues_, complexity |-> complexity_]

ScanResult(issues_, complexity_) ==
  [ok |-> TRUE, issues |-> issues_, complexity |-> complexity_]

\* ---- the source texts scan is given ---------------------------------------
\* Longest function body of the generated programs.
MaxBody == 3
\* Most if statements in a row, and most operands of an and/or chain.
MaxIfs == 3
MaxOperands == 3

SeqsUpTo(S, lo, hi) == UNION {[1..k -> S] : k \in lo..hi}

LeafBodies(lo, hi) == SeqsUpTo({Return, Pass}, lo, hi)

\* One function, or one function holding a second one: return statements
\* before, between and after other statements.
UnreachableSources ==
  {Program(<<Def(c, "f", NoArgs, b)>>) : c \in FunctionClasses, b \in LeafBodies(1, MaxBody)}
  \cup
  {Program(<<Def("FunctionDef", "f", NoArgs, pre \o <<Def(c, g, NoArgs, inner)>> \o post)>>) :
     c \in FunctionClasses, g \in {"f", "g"}, inner \in LeafBodies(1, MaxBody - 1),
     pre \in LeafBodies(0, 1), post \in LeafBodies(0, 1)}

ImportStmts ==
  { Import(<<Alias("os", "")>>),
    Import(<<Alias("os.path", "")>>),
    Import(<<Alias("numpy", "np")>>),
    Import(<<Alias("os", ""), Alias("sys", "")>>),
    ImportFrom("os", <<Alias("path", "")>>),
    ImportFrom("os", <<Alias("path", "p")>>),
    ImportFrom("os", <<Alias("*", "")>>) }

UsedNames == {"os", "sys", "numpy", "np", "path", "p"}

\* What follows the import: nothing, a read of a name at module level, as the
\* root of an attribute access, inside a nested function, or a plain store.
Uses ==
  {<<>>}
  \cup {<<Expr(Name(n, "Load"))>> : n \in UsedNames}
  \cup {<<Expr(Attribute(Name(n, "Load"), "sep"))>> : n \in UsedNames}
  \cup {<<Def("FunctionDef", "f", NoArgs,
            <<Def("FunctionDef", "g", NoArgs, <<Expr(Name(n, "Load"))>>)>>)>> : n \in UsedNames}
  \cup {<<Assign(<<Name(n, "Store")>>, Literal("Constant"))>> : n \in UsedNames}

ImportSources == {Program(<<i>> \o u) : i \in ImportStmts, u \in Uses}

Tests == {Name("x", "Load")}
         \cup {BoolOp([i \in 1..k |-> Name("x", "Load")]) : k \in 2..MaxOperands}

Ifs(n, test) == [i \in 1..n |-> If(test, <<Pass>>, <<>>)]

NonEmpty(body) == IF body = <<>> THEN <<Pass>> ELSE body

\* A function of n ifs in a row, alone, or holding or following a second
\* function of m ifs.
ComplexitySources ==
  {Program(<<Def("FunctionDef", "f", NoArgs, NonEmpty(Ifs(n, t)))>>) :
     n \in 0..MaxIfs, t \in Tests}
  \cup
  {Program(<<Def("FunctionDef", "f", NoArgs,
               Ifs(n, t) \o <<Def(c, g, NoArgs, NonEmpty(Ifs(m, u)))>>)>>) :
     n \in 0..MaxIfs, t \in Tests, m \in 0..MaxIfs, u \in Tests,
     c \in FunctionClasses, g \in {"f", "g"}}

\* Programs for the remaining rules.
OtherSources ==
  { Program(<<Try(<<Pass>>, <<ExceptHandler(<<>>, <<Pass>>)>>)>>),
    Program(<<Try(<<Pass>>, <<ExceptHandler(<<Name("ValueError", "Load")>>, <<Pass>>)>>)>>),
    Program(<<Expr(Call(Name("eval", "Load"), <<Literal("Constant")>>))>>),
    Program(<<Expr(Call(Attribute(Name("builtins", "Load"), "exec"), <<Literal("Constant")>>))>>),
    Program(<<Def("FunctionDef", "f", Arguments(<<None, Literal("Dict")>>, <<Literal("List")>>),
                  <<Pass>>)>>),
    Program(<<Assign(<<Name("x", "Store")>>, BinOp(Name("x", "Load"), Literal("Constant")))>>),
    Program(<<Assign(<<Name("x", "Store")>>, Literal("Constant")), Expr(Name("x", "Load")),
              Expr(Name("y", "Load"))>>) }

\* Constructs the rules flag: a bare except, a call of eval, an import that
\* is not used, a function with a mutable default.
Flagged ==
  { Try(<<Pass>>, <<ExceptHandler(<<>>, <<Pass>>)>>),
    Expr(Call(Name("eval", "Load"), <<Literal("Constant")>>)),
    Import(<<Alias("os", "")>>),
    Def("FunctionDef", "h", Arguments(<<>>, <<Literal("List")>>), <<Pass>>) }

\* Statements that hold another statement one level down.
Holders(stmt) ==
  { Def("FunctionDef", "f", NoArgs, <<stmt>>),
    If(Name("x", "Load"), <<stmt>>, <<>>),
    Try(<<stmt>>, <<ExceptHandler(<<Name("ValueError", "Load")>>, <<Pass>>)>>) }

\* A flagged construct inside a holder, before or after a flagged construct
\* at module level; and a function whose unreachable statement follows an
\* inner function with an unreachable statement of its own.
OrderSources ==
  {Program(<<h, k2>>) : h \in UNION {Holders(k1) : k1 \in Flagged}, k2 \in Flagged}
  \cup {Program(<<k2, h>>) : h \in UNION {Holders(k1) : k1 \in Flagged}, k2 \in Flagged}
  \cup {Program(<<Def("FunctionDef", "f", NoArgs,
                    <<Def(c, "g", NoArgs, <<Return, Pass>>), Return, Pass>>)>>) :
          c \in FunctionClasses}

\* Most parameters with a default of either sort (positional, keyword-only).
MaxDefaults == 2

\* Defaults of positional parameters, and of keyword-only parameters, for
\* which args.kw_defaults holds None where the parameter has no default.
PositionalDefaults == SeqsUpTo({Literal("List"), Literal("Set"), Literal("Constant")},
                               0, MaxDefaults)
KeywordDefaults == SeqsUpTo({None, Literal("Dict"), Literal("Constant")}, 0, MaxDefaults)

\* def f(...), async def f(...) and f = lambda ...: 0 with those defaults.
DefaultSources ==
  {Program(<<Def(c, "f", Arguments(kw, d), <<Pass>>)>>) :
     c \in FunctionClasses, kw \in KeywordDefaults, d \in PositionalDefaults}
  \cup
  {Program(<<Assign(<<Name("f", "Store")>>, Lambda(Arguments(kw, d), Literal("Constant")))>>) :
     kw \in KeywordDefaults, d \in PositionalDefaults}

\* Most statements in a row of the programs for the undefined-variable rule.
MaxStmts == 3

VarNames == {"x", "y"}

\* Reads and assignments of two names, an assignment whose value reads a
\* name, and an assignment whose value is nested too deep for the visitor.
VisitorStmts ==
  {Expr(Name(v, "Load")) : v \in VarNames}
  \cup {Assign(<<Name(v, "Store")>>, Literal("Constant")) : v \in VarNames}
  \cup {Assign(<<Name(v, "Store")>>, BinOp(Name(w, "Load"), Literal("Constant"))) :
          v \in VarNames, w \in VarNames}
  \cup {Assign(<<Name("a", "Store")>>, DeepChain)}

\* What the other rules find in front of those statements.
Preludes ==
  { <<>>,
    <<Import(<<Alias("os", "")>>),
      Expr(Call(Name("eval", "Load"), <<Literal("Constant")>>))>> }

VisitorSources ==
  {Program(pre \o b) : pre \in Preludes, b \in SeqsUpTo(VisitorStmts, 1, MaxStmts)}

\* Texts that do not parse: SyntaxError with the parser's message and line
\* (lineno None, written 0, for a text holding a null byte), and texts for
\* which ast.parse raises something else.
BadSources ==
  {BadSyntax("invalid syntax", l) : l \in 1..MaxBody}
  \cup {BadSyntax("source code string cannot contain null bytes", 0)}
  \cup {Unparsed("UnicodeEncodeError"), Unparsed("RecursionError"), Unparsed("MemoryError")}

Sources == UnreachableSources \cup ImportSources \cup ComplexitySources
             \cup OtherSources \cup OrderSources \cup DefaultSources \cup VisitorSources
             \cup BadSources

NoTree == [class |-> "NoneType", lineno |-> 0]

\* _history: list[str] = [] and _hist_idx: int = -1
NoHistory ==
  /\ _history = <<>>
  /\ _hist_idx = -1
  /\ input_text = <<>>
  /\ popped = <<>>

ScanIdle ==
  /\ scode = Program(<<>>)
  /\ spc = "idle"
  /\ tree = NoTree
  /\ issues = <<>>
  /\ complexity = EmptyMap
  /\ sresult = NoResult
  /\ sexc = "none"

ScanInit ==
  /\ SandboxInit
  /\ NoHistory
  /\ scode \in Sources
  /\ spc = "parse"
  /\ tree = NoTree
  /\ issues = <<>>
  /\ complexity = EmptyMap
  /\ sresult = NoResult
  /\ sexc = "none"

\* try: tree = ast.parse(code) except SyntaxError as e: return {...}
Parse ==
  /\ spc = "parse"
  /\ LET r == ast_parse(scode) IN
       \/ /\ r.raised = "none"
          /\ tree' = r.tree
          /\ spc' = "unreachable"
          /\ UNCHANGED <<sresult, sexc>>
       \/ /\ r.raised = "SyntaxError"
          /\ sresult' = SyntaxErrorResult(r.e)
          /\ spc' = "done"
          /\ UNCHANGED <<tree, sexc>>
       \/ /\ r.raised \notin {"none", "SyntaxError"}
          /\ sexc' = r.raised
          /\ spc' = "raised"
          /\ UNCHANGED <<tree, sresult>>
  /\ UNCHANGED <<scode, issues, complexity>>
  /\ UNCHANGED <<sandboxVars, historyVars>>

\* A rule appends its issues and scan goes on to the next rule.
RuleStep(here, found, next) ==
  /\ spc = here
  /\ issues' = issues \o found
  /\ spc' = next
  /\ UNCHANGED <<scode, tree, sresult, sexc>>
  /\ UNCHANGED <<sandboxVars, historyVars>>

Unreachable ==
  /\ RuleStep("unreachable", UnreachableRule(walk(tree)), "unused_import")
  /\ UNCHANGED complexity

UnusedImports ==
  /\ RuleStep("unused_import", UnusedImportRule(walk(tree), tree), "bare_except")
  /\ UNCHANGED complexity

BareExcepts ==
  /\ RuleStep("bare_except", BareExceptRule(walk(tree)), "dangerous_call")
  /\ UNCHANGED complexity

DangerousCalls ==
  /\ RuleStep("dangerous_call", DangerousCallRule(walk(tree)), "mutable_default")
  /\ UNCHANGED complexity

MutableDefaults ==
  /\ RuleStep("mutable_default", MutableDefaultRule(walk(tree)), "complexity")
  /\ UNCHANGED complexity

Complexity ==
  LET r == ComplexityRule(walk(tree), [complexity |-> complexity, issues |-> <<>>]) IN
    /\ RuleStep("complexity", r.issues, "undefined_var")
    /\ complexity' = r.complexity

UndefinedVars ==
  /\ RuleStep("undefined_var", UndefinedVarRule(tree), "return")
  /\ UNCHANGED complexity

\* return {"ok": True, "issues": issues, "complexity": complexity}
ScanReturn ==
  /\ spc = "return"
  /\ sresult' = ScanResult(issues, complexity)
  /\ spc' = "done"
  /\ UNCHANGED <<scode, tree, issues, complexity, sexc>>
  /\ UNCHANGED <<sandboxVars, historyVars>>

ScanNext ==
  \/ Parse
  \/ Unreachable
  \/ UnusedImports
  \/ BareExcepts
  \/ DangerousCalls
  \/ MutableDefaults
  \/ Complexity
  \/ UndefinedVars
  \/ ScanReturn

(***************************************************************************)
(* Part III.  The history of CodeFixApp                                    *)
(***************************************************************************)

MAX_HISTORY == 5

\* Texts are sequences of characters.
Whitespace == {" ", "\n"}

\* What the user may have in the input area when a button is pressed.
Texts == { <<>>, <<" ", "\n">>, <<"a">>, <<"a", " ">>, <<"b">> }

RECURSIVE lstrip(_)
lstrip(text) ==
  IF text # <<>> /\ Head(text) \in Whitespace THEN lstrip(Tail(text)) ELSE text

RECURSIVE rstrip(_)
rstrip(text) ==
  IF text # <<>> /\ text[Len(text)] \in Whitespace
    THEN rstrip(SubSeq(text, 1, Len(text) - 1)) ELSE text

\* str.strip()
strip(text) == rstrip(lstrip(text))

max(a, b) == IF a >= b THEN a ELSE b
min(a, b) == IF a <= b THEN a ELSE b

\* A history that drops its newest entry when it is full.
pop_Newest(h) == [list |-> SubSeq(h, 1, Len(h) - 1), item |-> h[Len(h)]]

\* self._history.pop(0): the list without its first entry, and that entry.
pop(h) == [list |-> Tail(h), item |-> Head(h)]

\* The user edits the input area.
TypeText ==
  /\ \E text \in Texts : input_text' = text
  /\ UNCHANGED <<_history, _hist_idx, popped>>
  /\ UNCHANGED <<sandboxVars, scanVars>>

\* _push_history(code), called by the analyze, fix and explain buttons with
\* the text of the input area.
_push_history(code_) ==
  /\ IF strip(code_) = <<>>
       THEN UNCHANGED <<_history, _hist_idx, popped>>
     ELSE IF _history # <<>> /\ _history[Len(_history)] = code_
       THEN UNCHANGED <<_history, _hist_idx, popped>>
     ELSE LET appended == Append(_history, code_) IN
            IF Len(appended) > MAX_HISTORY
              THEN /\ _history' = pop(appended).list
                   /\ popped' = pop(appended).item
                   /\ _hist_idx' = Len(pop(appended).list) - 1
              ELSE /\ _history' = appended
                   /\ popped' = popped
                   /\ _hist_idx' = Len(appended) - 1
  /\ UNCHANGED input_text
  /\ UNCHANGED <<sandboxVars, scanVars>>

\* _history_navigate(direction), called by the hist_prev (-1) and hist_next
\* (+1) buttons; list indices count from 0 in the code and from 1 here.
_history_navigate(direction) ==
  /\ IF _history = <<>>
       THEN UNCHANGED <<_hist_idx, input_text>>
       ELSE /\ _hist_idx' = max(0, min(Len(_history) - 1, _hist_idx + direction))
            /\ input_text' = _history[_hist_idx' + 1]
  /\ UNCHANGED <<_history, popped>>
  /\ UNCHANGED <<sandboxVars, scanVars>>

HistoryInit == SandboxInit /\ ScanIdle /\ NoHistory

\* on_button_pressed: analyze, fix and explain push the input text;
\* hist_prev and hist_next navigate.
HistoryNext ==
  \/ TypeText
  \/ _push_history(input_text)
  \/ \E direction \in {-1, 1} : _history_navigate(direction)

vars == <<sandboxVars, scanVars, historyVars>>

Init == SandboxInit /\ ScanIdle /\ NoHistory
Next == SandboxNext
Spec == Init /\ [][Next]_vars

\* scan applied to each source text of Sources.
ScanSpec == ScanInit /\ [][ScanNext]_vars

\* The buttons of one CodeFixApp, pressed in any order.
HistorySpec == HistoryInit /\ [][HistoryNext]_vars

(***************************************************************************)
(* Part IV.  Properties                                                     *)
(***************************************************************************)

IsSuccess(r) == DOMAIN r = {"ok", "stdout", "stderr", "returncode", "elapsed"} /\ r.ok
IsTimeout(r) == DOMAIN r = {"ok", "timeout", "elapsed"} /\ ~r.ok /\ r.timeout
IsError(r) == DOMAIN r = {"ok", "error", "elapsed"} /\ ~r.ok

Left(c) == pc[c] \in {"returned", "raised"}

\* C1: at the step at which a call of run_in_sandbox returns or raises, the
\* temporary file that call created is no longer on disk, whatever the exit
\* path (a failure while writing the source text included).
C1_TempFileGoneOnExit ==
  [][\A c \in Calls :
       (~Left(c) /\ Left(c)' /\ path'[c] # NoPath) => disk'[path'[c]] = NoFile]_vars

\* C2: when the timed-out result is returned, no process started by that run
\* (the child or a process it spawned) is still running.
C2_NoProcessLeftOnTimeout ==
  \A c \in Calls :
    (pc[c] = "returned" /\ IsTimeout(result[c]))
      => (procs[c].child # "running" /\ procs[c].descendant # "running")

\* C3: no exception leaves run_in_sandbox, at any failure point, and a
\* failure to launch is returned as ok=false with an error message.
C3_NoExceptionEscapes ==
  \A c \in Calls :
    /\ pc[c] # "raised"
    /\ exc[c] = "none"
    /\ (pc[c] = "returned" /\ procs[c].child = "none") => IsError(result[c])

\* C7: every result run_in_sandbox returns has exactly one of the three
\* shapes success, timeout (elapsed = the timeout argument, no output, no
\* error) and failure (error, no timeout marker); the timeout shape is
\* returned exactly when the deadline passed, the failure shape exactly when
\* the launch or the capture of the output failed.
C7_OneTerminalShape ==
  \A c \in Calls :
    pc[c] = "returned" =>
      LET r == result[c]
          shapes == {s \in {"success", "timeout", "error"} :
                       \/ s = "success" /\ IsSuccess(r)
                       \/ s = "timeout" /\ IsTimeout(r)
                       \/ s = "error" /\ IsError(r)}
      IN /\ Cardinality(shapes) = 1
         /\ IsTimeout(r) => r.elapsed = timeout[c]
         /\ IsTimeout(r) <=> procs[c].child = "killed"
         /\ IsError(r) <=> \/ procs[c].child = "none"
                           \/ procs[c].child = "exited" /\ ~Behaviour(prog[c]).decodes
         /\ IsSuccess(r) <=> procs[c].child = "exited" /\ Behaviour(prog[c]).decodes

\* One call has returned the timeout shape and another the failure shape.
C7_Witness ==
  \E c, d \in Calls :
    /\ pc[c] = "returned" /\ IsTimeout(result[c])
    /\ pc[d] = "returned" /\ IsError(result[d])

\* C4: scan never throws, whatever the source text.
C4_ScanNeverThrows == spc # "raised" /\ sexc = "none"

\* C5: for a source text that does not parse, scan returns ok=false with a
\* non-empty message and the parser's line number, and no rule has run: the
\* result holds no issue and no complexity entry.
C5_UnparseableGivesSyntaxShape ==
  (scode.kind # "program" /\ spc \in {"done", "raised"}) =>
    /\ spc = "done"
    /\ ~sresult.ok
    /\ sresult.syntax_error.msg # ""
    /\ sresult.syntax_error.lineno = scode.lineno
    /\ sresult.issues = <<>> /\ sresult.complexity = EmptyMap
    /\ issues = <<>> /\ complexity = EmptyMap

\* C6 as stated: a returned result is either the syntax-failure shape without
\* the issues and complexity fields, or the successful shape without the
\* syntax-error field.
C6_DisjointFields ==
  spc = "done" =>
    \/ ~sresult.ok /\ DOMAIN sresult = {"ok", "syntax_error"}
    \/ sresult.ok /\ DOMAIN sresult = {"ok", "issues", "complexity"}

\* C6 as amended: a returned result is either the syntax-failure shape
\* (ok=false, syntax_error with msg and lineno, issues and complexity present
\* and empty), returned exactly for a SyntaxError, or the successful shape
\* (ok=true, issues, complexity, no syntax_error field); never both.
C6_TwoShapes ==
  spc = "done" =>
    LET failure == /\ ~sresult.ok
                   /\ DOMAIN sresult = {"ok", "syntax_error", "issues", "complexity"}
                   /\ DOMAIN sresult.syntax_error = {"msg", "lineno"}
                   /\ sresult.issues = <<>> /\ sresult.complexity = EmptyMap
        success == /\ sresult.ok
                   /\ DOMAIN sresult = {"ok", "issues", "complexity"}
    IN /\ failure # success
       /\ failure <=> scode.kind = "SyntaxError"
       /\ success <=> scode.kind = "program"

\* scan has returned the syntax-failure shape for an error on a known line.
C6_Witness ==
  /\ spc = "done" /\ ~sresult.ok
  /\ sresult.syntax_error.lineno > 0
  /\ sresult.issues = <<>>

FunctionsOf(tree_) == SelectSeq(walk(tree_), LAMBDA n : isinstance(n, FunctionClasses))

IssuesOf(kind) == {k \in DOMAIN sresult.issues : sresult.issues[k].kind = kind}

Returned == spc = "done" /\ sresult.ok

\* Positions in the body of f of a return that a sibling statement follows.
ReturnsWithSibling(f) ==
  {i \in 1..(Len(f.body) - 1) : isinstance(f.body[i], {"Return"})}

Min(S) == CHOOSE x \in S : \A y \in S : x <= y

\* C8: a function whose body has, at its top level, a return followed by at
\* least one sibling statement of any kind gets exactly one unreachable issue
\* naming it, at the first statement after the first return; any other
\* function gets none.
C8_OneUnreachablePerFunction ==
  Returned =>
    \A j \in DOMAIN FunctionsOf(tree) :
      LET f == FunctionsOf(tree)[j]
          mine == {k \in IssuesOf("unreachable") :
                     /\ sresult.issues[k].name = f.name
                     /\ \E i \in DOMAIN f.body : sresult.issues[k].lineno = f.body[i].lineno}
      IN IF ReturnsWithSibling(f) # {}
           THEN /\ Cardinality(mine) = 1
                /\ \A k \in mine :
                     sresult.issues[k].lineno = f.body[Min(ReturnsWithSibling(f)) + 1].lineno
           ELSE mine = {}

\* The name an import statement binds: the alias, else the top-level package.
TopLevel(name) == IF name = "os.path" THEN "os" ELSE name
BoundName(alias) == IF alias.asname # "" THEN alias.asname ELSE TopLevel(alias.name)

Referenced(name, tree_) ==
  \E i \in DOMAIN walk(tree_) :
    walk(tree_)[i].class = "Name" /\ walk(tree_)[i].id = name /\ walk(tree_)[i].ctx = "Load"

\* C9: every imported name (plain, dotted, aliased, from-style; not the
\* wildcard) that is never referenced is reported in exactly one
\* unused_import issue, and one that is referenced anywhere is not reported.
C9_UnusedImportsExact ==
  Returned =>
    \A i \in DOMAIN walk(tree) :
      LET node == walk(tree)[i] IN
        isinstance(node, {"Import", "ImportFrom"}) =>
          \A a \in DOMAIN node.names :
            LET alias == node.names[a]
                mine == {k \in IssuesOf("unused_import") :
                           /\ sresult.issues[k].lineno = node.lineno
                           /\ sresult.issues[k].name \in {AliasName(alias), BoundName(alias)}}
            IN alias.name # "*" =>
                 IF Referenced(BoundName(alias), tree)
                   THEN mine = {}
                   ELSE Cardinality(mine) = 1

RECURSIVE OwnQueue(_)
\* The nodes below a function that belong to it and not to a function in it.
OwnQueue(todo) ==
  IF todo = <<>> THEN <<>>
  ELSE IF isinstance(Head(todo), FunctionClasses) THEN OwnQueue(Tail(todo))
  ELSE <<Head(todo)>> \o OwnQueue(Tail(todo) \o iter_child_nodes(Head(todo)))

OwnBranches(f) == CountBranches(OwnQueue(iter_child_nodes(f)), 0)

\* C10: the complexity recorded for a function is 1 plus the number of its
\* own branch-like constructs (an N-operand and/or chain counting N-1), also
\* when it encloses or is enclosed by functions that contain branches.
C10_ComplexityIsOwnBranches ==
  Returned =>
    \A j \in DOMAIN FunctionsOf(tree) :
      LET f == FunctionsOf(tree)[j] IN
        (\A k \in DOMAIN FunctionsOf(tree) : k # j => FunctionsOf(tree)[k].name # f.name)
          => /\ f.name \in DOMAIN sresult.complexity
             /\ sresult.complexity[f.name] = 1 + OwnBranches(f)

\* The rule whose evaluation raises on this tree: the visitor of the
\* undefined-variable rule, on a statement nested too deep for it.
VisitorRaises(tree_) == RunVisitor(tree_).raised

IssuesOfOtherRules(tree_) ==
  UnreachableRule(walk(tree_))
    \o UnusedImportRule(walk(tree_), tree_)
    \o BareExceptRule(walk(tree_))
    \o DangerousCallRule(walk(tree_))
    \o MutableDefaultRule(walk(tree_))
    \o ComplexityRule(walk(tree_), [complexity |-> EmptyMap, issues |-> <<>>]).issues

\* C11: when a rule raises inside scan, the scan still returns ok=true, the
\* issues of every other rule are in the result, and the rule that raised
\* contributes no issue to it.
C11_RuleFailureIsolated ==
  (spc \in {"done", "raised"} /\ scode.kind = "program" /\ VisitorRaises(tree)) =>
    /\ spc = "done"
    /\ sresult.ok
    /\ SelectSeq(sresult.issues, LAMBDA i : i.kind # "undefined_var") = IssuesOfOtherRules(tree)
    /\ IssuesOf("undefined_var") = {}

\* C12: when the child exits before the deadline, whatever its exit code,
\* run_in_sandbox returns the success shape with the child's exit code, its
\* captured stdout and stderr, and an elapsed value below the timeout.
C12_ExitInTimeGivesSuccess ==
  \A c \in Calls :
    (pc[c] = "returned" /\ procs[c].child = "exited" /\ waited[c] < timeout[c]) =>
      /\ IsSuccess(result[c])
      /\ result[c].returncode = Behaviour(code[c]).rc
      /\ result[c].stdout = Behaviour(code[c]).out
      /\ result[c].stderr = Behaviour(code[c]).err
      /\ result[c].elapsed < timeout[c]

\* A call that holds a temporary file and has not left run_in_sandbox.
Live(c) == pc[c] \in {"write", "spawn", "wait", "finally"}

\* C13: for any interleaving of concurrent calls, each call uses a path no
\* other live call uses, runs exactly its own source text, returns only its
\* own child's output, and no step of one call deletes or rewrites the
\* temporary file of another live call.
C13_CallsDoNotInterfere ==
  /\ [](\A c \in Calls :
         /\ \A d \in Calls \ {c} : (Live(c) /\ Live(d)) => path[c] # path[d]
         /\ procs[c].child # "none" => prog[c] = code[c]
         /\ (pc[c] = "returned" /\ IsSuccess(result[c])) =>
              /\ result[c].stdout = Behaviour(code[c]).out
              /\ result[c].stderr = Behaviour(code[c]).err
              /\ result[c].returncode = Behaviour(code[c]).rc)
  /\ [][\A c \in Calls :
          (Live(c) /\ pc'[c] = pc[c]) => disk'[path[c]] = disk[path[c]]]_vars

\* One call has returned its own output and removed its file while another
\* call, given a different text, still waits with its file intact.
C13_Witness ==
  \E c, d \in Calls :
    /\ code[c] = "print('hi')" /\ code[d] = "sys.exit(3)"
    /\ pc[c] = "returned" /\ IsSuccess(result[c]) /\ result[c].stdout = "hi\n"
    /\ disk[path[c]] = NoFile
    /\ pc[d] = "wait" /\ disk[path[d]] = code[d]

\* C14: when os.remove fails in the cleanup of a call, the call raises
\* nothing and returns the result the execution produced, unchanged, and it
\* has attempted the removal exactly once.
C14_CleanupFailureSwallowed ==
  [][\A c \in Calls :
       (pc[c] = "finally" /\ pc'[c] # "finally" /\ disk'[path[c]] # NoFile) =>
         /\ pc'[c] = "returned"
         /\ exc'[c] = "none"
         /\ result'[c] = result[c]
         /\ result'[c] # NoResult
         /\ removes[c] = 0 /\ removes'[c] = 1]_vars

\* A call has returned the timeout shape with its file still on disk after
\* the one removal it attempted, which failed.
C14_Witness ==
  \E c \in Calls :
    /\ pc[c] = "returned"
    /\ IsTimeout(result[c])
    /\ disk[path[c]] # NoFile
    /\ removes[c] = 1

\* The function at position j is the last of its name that the walk meets:
\* complexity[node.name] = cc keeps the score of that one.
LastOfItsName(fs, j) == \A k \in DOMAIN fs : k > j => fs[k].name # fs[j].name

\* C15: in a successful result every value of the complexity map is an
\* integer >= 1, and each function whose score is >= 10 has exactly one
\* high_complexity issue naming it (carrying that score), each function
\* whose score is below 10 has none, and no other high_complexity issue
\* exists -- also when several functions share a name, in which case the map
\* holds the score of the last of them.
C15_HighComplexityIffTen ==
  Returned =>
    LET fs == FunctionsOf(tree)
        about(f) == {k \in IssuesOf("high_complexity") :
                       /\ sresult.issues[k].name = f.name
                       /\ sresult.issues[k].lineno = f.lineno}
    IN /\ \A n \in DOMAIN sresult.complexity :
            sresult.complexity[n] \in Nat /\ sresult.complexity[n] >= 1
       /\ DOMAIN sresult.complexity = {fs[j].name : j \in DOMAIN fs}
       /\ \A j \in DOMAIN fs :
            /\ LastOfItsName(fs, j) => sresult.complexity[fs[j].name] = _cyclomatic(fs[j])
            /\ Cardinality(about(fs[j])) = (IF _cyclomatic(fs[j]) >= 10 THEN 1 ELSE 0)
            /\ \A k \in about(fs[j]) : sresult.issues[k].detail = _cyclomatic(fs[j])
       /\ \A k \in IssuesOf("high_complexity") : \E j \in DOMAIN fs : k \in about(fs[j])

\* Two functions share the name f: the outer one scores 10 or more and has
\* its issue, the inner one scores less and the map holds its score.
C15_Witness ==
  /\ Returned
  /\ Len(FunctionsOf(tree)) = 2
  /\ FunctionsOf(tree)[1].name = "f" /\ FunctionsOf(tree)[2].name = "f"
  /\ sresult.complexity["f"] < 10
  /\ \E k \in IssuesOf("high_complexity") :
       sresult.issues[k].name = "f" /\ sresult.issues[k].detail >= 10

\* The categories in the order in which scan runs its rules.
CategoryOrder ==
  <<"unreachable", "unused_import", "bare_except", "dangerous_call", "mutable_default",
    "high_complexity", "undefined_var">>

Rank(kind) == CHOOSE i \in DOMAIN CategoryOrder : CategoryOrder[i] = kind

\* C16: the issues of a successful scan are grouped by category in the fixed
\* sequence of the rules, and within a category a construct that comes
\* earlier in the source is reported before a later one, also across nesting
\* levels.
C16_SourceOrderPerCategory ==
  Returned =>
    \A k1, k2 \in DOMAIN sresult.issues :
      k1 < k2 =>
        /\ Rank(sresult.issues[k1].kind) <= Rank(sresult.issues[k2].kind)
        /\ sresult.issues[k1].kind = sresult.issues[k2].kind
             => sresult.issues[k1].lineno <= sresult.issues[k2].lineno

\* An assignment statement on an earlier line has the name among its targets.
AssignedEarlier(id, lineno, tree_) ==
  \E j \in DOMAIN walk(tree_) :
    LET stmt == walk(tree_)[j] IN
      /\ isinstance(stmt, {"Assign"})
      /\ stmt.lineno < lineno
      /\ \E t \in DOMAIN stmt.targets :
           isinstance(stmt.targets[t], {"Name"}) /\ stmt.targets[t].id = id

\* C17: when the undefined-variable rule has run to its end, every name read
\* before an assignment has added it to the set of assigned names has an
\* undefined_var issue -- the name read on the right-hand side of the very
\* assignment that first defines it included -- and a name read after an
\* earlier assignment to it has none.
C17_ReadBeforeAssignedIsFlagged ==
  (Returned /\ ~VisitorRaises(tree)) =>
    \A i \in DOMAIN walk(tree) :
      LET node == walk(tree)[i]
          mine == {k \in IssuesOf("undefined_var") :
                     /\ sresult.issues[k].name = node.id
                     /\ sresult.issues[k].lineno = node.lineno}
      IN (isinstance(node, {"Name"}) /\ node.ctx = "Load") =>
           IF AssignedEarlier(node.id, node.lineno, tree) THEN mine = {} ELSE mine # {}

\* The defaults of a function or lambda that are a literal list, mapping or set.
MutableDefaultsOf(node) ==
  LET a == node.args[1] IN
    Cardinality({i \in DOMAIN a.defaults : a.defaults[i].class \in {"List", "Dict", "Set"}})
      + Cardinality({i \in DOMAIN a.kw_defaults :
                       a.kw_defaults[i].class \in {"List", "Dict", "Set"}})

\* C18: every parameter (positional or keyword-only, of a def, an async def
\* or a lambda) whose default is a literal list, mapping or set has one
\* mutable_default issue, and no other parameter has one: the issues at the
\* line of a function are as many as its mutable defaults.
C18_EveryMutableDefaultFlagged ==
  Returned =>
    \A i \in DOMAIN walk(tree) :
      LET node == walk(tree)[i] IN
        isinstance(node, FunctionClasses \cup {"Lambda"}) =>
          Cardinality({k \in IssuesOf("mutable_default") :
                         sresult.issues[k].lineno = node.lineno})
            = MutableDefaultsOf(node)

\* A text with nothing but whitespace in it.
Blank(text) == \A i \in DOMAIN text : text[i] \in Whitespace

\* C19: after any sequence of pushes and navigations the history holds at
\* most MAX_HISTORY entries, none blank, no two adjacent ones equal, and
\* when it is not empty 0 <= _hist_idx < len(_history); a push of a blank
\* text or of the newest entry changes neither history nor index, and any
\* other push appends the text, evicting the oldest entry of a full history.
C19_HistoryBounded ==
  /\ [](/\ Len(_history) <= MAX_HISTORY
        /\ \A i \in DOMAIN _history : ~Blank(_history[i])
        /\ \A i \in 1..(Len(_history) - 1) : _history[i] # _history[i + 1]
        /\ _history # <<>> => (0 <= _hist_idx /\ _hist_idx < Len(_history)))
  /\ [][\A text \in Texts :
          _push_history(text) =>
            IF Blank(text) \/ (_history # <<>> /\ _history[Len(_history)] = text)
              THEN _history' = _history /\ _hist_idx' = _hist_idx
              ELSE /\ _history' = (IF Len(_history) = MAX_HISTORY
                                     THEN SubSeq(_history, 2, MAX_HISTORY)
                                     ELSE _history) \o <<text>>
                   /\ _hist_idx' = Len(_history') - 1]_vars

\* A push into a full history has evicted its oldest entry, and the user has
\* then navigated back to the first of the five entries.
C19_Witness ==
  /\ Len(_history) = MAX_HISTORY
  /\ popped # <<>>
  /\ _hist_idx = 0
  /\ input_text = _history[1]

====
